---------------------------- MODULE Spec2Model ----------------------------
(***************************************************************************)
(* A model of the Shotcut API Python client.                               *)
(*                                                                         *)
(*   Spec        the client object (shotcut/api.py): construction, the     *)
(*               resource methods, the request pipeline _make_request and  *)
(*               the HTTP exchange it blocks on.                           *)
(*   SpecModels  record construction (shotcut/models.py):                  *)
(*               create_model_from_response applied, possibly repeatedly,  *)
(*               to one raw mapping object.                                *)
(***************************************************************************)
EXTENDS Integers, Sequences, FiniteSets, TLC

VARIABLES
    api_key,          \* self.api_key
    base_url,         \* self.base_url
    headers,          \* self.headers
    requests_compat,  \* TRUE: the installed requests raises a RequestException
                      \* from response.json(); FALSE: it raises a plain ValueError
    pc,               \* position of the calling thread
    call,             \* arguments of _make_request not yet turned into a request
    wire,             \* the request handed to the transport, while in flight
    nsent,            \* requests transmitted by the current call
    resp,             \* what the HTTP exchange produced
    outcome,          \* what the call gave its caller
    prev,             \* the exchange and outcome of the call before this one
    model_class,      \* create_model_from_response: the record kind
    data,             \* the caller's raw mapping object (mutable)
    data0,            \* the mapping as it was before the first call
    ncall,            \* calls of create_model_from_response so far
    result,           \* what the latest call gave its caller
    first             \* what the first call gave its caller

clientVars == <<api_key, base_url, headers, requests_compat>>
callVars == <<pc, call, wire, nsent, resp, outcome, prev>>
modelVars == <<model_class, data, data0, ncall, result, first>>
vars == <<clientVars, callVars, modelVars>>

----------------------------------------------------------------------------
(* Bounds of the model.                                                    *)

MaxId == 2
MaxPage == 2
MaxBuilds == 2

----------------------------------------------------------------------------
(* JSON / Python values that travel in request and response mappings.      *)

JNull == [t |-> "null", i |-> 0, s |-> ""]
JInt(n) == [t |-> "int", i |-> n, s |-> ""]
JStr(x) == [t |-> "str", i |-> 0, s |-> x]
JBool(b) == [t |-> "bool", i |-> IF b THEN 1 ELSE 0, s |-> ""]

\* Python truth value of v (the test of "if v:")
Truthy(v) ==
    CASE v.t = "null" -> FALSE
      [] v.t = "int" -> v.i # 0
      [] v.t = "bool" -> v.i # 0
      [] v.t = "str" -> v.s # ""

\* Python "v != 0"
NotEqualZero(v) ==
    CASE v.t = "null" -> TRUE
      [] v.t = "int" -> v.i # 0
      [] v.t = "bool" -> v.i # 0
      [] v.t = "str" -> TRUE

EmptyDict == [k \in {} |-> JNull]
NoneDict == [isNone |-> TRUE, d |-> EmptyDict]
Some(d) == [isNone |-> FALSE, d |-> d]

\* d with d[k] = v added when cond holds ("if cond: d[k] = v")
SetIf(d, cond, k, v) == IF cond THEN (k :> v) @@ d ELSE d

\* dict.get(k) with the default None
Get(d, k) == IF k \in DOMAIN d THEN d[k] ELSE JNull

\* "x if x else None" for an optional mapping
OrNone(x) == IF x.isNone \/ DOMAIN x.d = {} THEN NoneDict ELSE x

\* utils.clean_params
clean_params(params) ==
    [k \in {j \in DOMAIN params : params[j] # JNull} |-> params[k]]

----------------------------------------------------------------------------
(* Strings the code parses are sequences of characters.                    *)

DigitChars == <<"0", "1", "2", "3", "4", "5", "6", "7", "8", "9">>
IsDigit(c) == \E i \in 1..10 : DigitChars[i] = c
DigitVal(c) == (CHOOSE i \in 1..10 : DigitChars[i] = c) - 1

RECURSIVE DigitsValue(_)
DigitsValue(ds) ==
    IF ds = <<>> THEN 0
    ELSE 10 * DigitsValue(SubSeq(ds, 1, Len(ds) - 1)) + DigitVal(ds[Len(ds)])

RECURSIVE Strip(_)
Strip(cs) ==
    IF cs # <<>> /\ cs[1] = " " THEN Strip(Tail(cs))
    ELSE IF cs # <<>> /\ cs[Len(cs)] = " " THEN Strip(SubSeq(cs, 1, Len(cs) - 1))
    ELSE cs

\* Python int(str): [ok, n]; not ok is ValueError
ParseInt(cs) ==
    LET s == Strip(cs)
        signed == s # <<>> /\ s[1] \in {"+", "-"}
        body == IF signed THEN Tail(s) ELSE s
        wellFormed ==
            /\ body # <<>>
            /\ IsDigit(body[1]) /\ IsDigit(body[Len(body)])
            /\ \A j \in 1..Len(body) : IsDigit(body[j]) \/ body[j] = "_"
            /\ \A j \in 1..(Len(body) - 1) : ~(body[j] = "_" /\ body[j + 1] = "_")
        mag == DigitsValue(SelectSeq(body, IsDigit))
    IN  IF ~wellFormed THEN [ok |-> FALSE, n |-> 0]
        ELSE [ok |-> TRUE, n |-> IF signed /\ s[1] = "-" THEN 0 - mag ELSE mag]

----------------------------------------------------------------------------
(* Calendar arithmetic of datetime (proleptic Gregorian, UTC).             *)

IsLeap(y) == (y % 4 = 0 /\ y % 100 # 0) \/ y % 400 = 0

DaysInMonth(y, m) ==
    IF m = 2 THEN (IF IsLeap(y) THEN 29 ELSE 28)
    ELSE IF m \in {4, 6, 9, 11} THEN 30 ELSE 31

NoTime == <<>>

\* floor division and modulus for a possibly negative dividend
FloorDiv(a, b) == IF a >= 0 THEN a \div b ELSE 0 - ((b - 1 - a) \div b)
FloorMod(a, b) == a - b * FloorDiv(a, b)

\* datetime.fromtimestamp(n): <<year, month, day, hour, minute, second>>
FromTimestamp(n) ==
    LET days == FloorDiv(n, 86400)
        secs == FloorMod(n, 86400)
        z == days + 719468
        era == FloorDiv(z, 146097)
        doe == z - era * 146097
        yoe == (doe - doe \div 1460 + doe \div 36524 - doe \div 146096) \div 365
        doy == doe - (365 * yoe + yoe \div 4 - yoe \div 100)
        mp == (5 * doy + 2) \div 153
        d == doy - (153 * mp + 2) \div 5 + 1
        m == IF mp < 10 THEN mp + 3 ELSE mp - 9
        y == yoe + era * 400 + (IF m <= 2 THEN 1 ELSE 0)
    IN  <<y, m, d, secs \div 3600, (secs % 3600) \div 60, secs % 60>>

----------------------------------------------------------------------------
(* The error taxonomy (shotcut/exceptions.py) and what a call gives back.  *)

\* ShotcutAPIError and its specializations
ApiErrorKinds ==
    {"ShotcutAPIError", "RateLimitError", "AuthenticationError", "ValidationError"}

NoBody == [kind |-> "none", d |-> EmptyDict]
NoMsg == [text |-> "", val |-> JNull, time |-> NoTime]
Msg(text, val, time) == [text |-> text, val |-> val, time |-> time]

NoOutcome == [kind |-> "none", exc |-> "", at |-> "", msg |-> NoMsg, body |-> NoBody]
Raise(exc, at, msg) ==
    [kind |-> "raise", exc |-> exc, at |-> at, msg |-> msg, body |-> NoBody]
Return(body) ==
    [kind |-> "return", exc |-> "", at |-> "", msg |-> NoMsg, body |-> body]

----------------------------------------------------------------------------
(* What the HTTP exchange can produce.                                     *)

RemainingHeader == "X-RateLimit-Remaining"
ResetHeader == "X-RateLimit-Reset"

RemainingVals == {<<"0">>, <<"0", "0">>, <<"5">>}
ResetVals == {<<"0">>, <<"6", "0">>, <<"s", "o", "o", "n">>}

ResponseHeaders ==
    {EmptyDict}
    \cup {RemainingHeader :> r : r \in RemainingVals}
    \cup {ResetHeader :> t : t \in ResetVals}
    \cup {(RemainingHeader :> r) @@ (ResetHeader :> t) :
             r \in RemainingVals, t \in ResetVals}

ErrorVals == {JInt(0), JInt(1), JNull}
MessageVals == {JStr("bad url")}

\* decoded bodies: JSON objects over the envelope's keys, and a JSON array
ObjectBodies ==
    {[kind |-> "object", d |-> d] :
        d \in {EmptyDict}
              \cup {"error" :> e : e \in ErrorVals}
              \cup {"message" :> m : m \in MessageVals}
              \cup {("error" :> e) @@ ("message" :> m) :
                       e \in ErrorVals, m \in MessageVals}}
ArrayBody == [kind |-> "array", d |-> EmptyDict]
Bodies == ObjectBodies \cup {ArrayBody}

NoResp ==
    [transport |-> "none", error |-> "", decodes |-> FALSE, body |-> NoBody,
     headers |-> EmptyDict]
TransportErrors ==
    {[transport |-> "error", error |-> e, decodes |-> FALSE, body |-> NoBody,
      headers |-> EmptyDict] : e \in {"connection refused", "timed out"}}
Responses ==
    {[transport |-> "ok", error |-> "", decodes |-> TRUE, body |-> b, headers |-> h] :
        b \in Bodies, h \in ResponseHeaders}
    \cup {[transport |-> "ok", error |-> "", decodes |-> FALSE, body |-> NoBody,
           headers |-> h] : h \in ResponseHeaders}

----------------------------------------------------------------------------
(* ShotcutAPI.__init__                                                     *)

ApiKeys == {"key-A", "key-B"}

BaseUrl == "https://shotcut.in/api"

InitHeaders_NoContentType(key) == "Authorization" :> ("Bearer " \o key)

InitHeaders(key) ==
    ("Authorization" :> ("Bearer " \o key)) @@ ("Content-Type" :> "application/json")

NoCall == [method |-> "", endpoint |-> "", data |-> NoneDict, params |-> NoneDict]
NoWire ==
    [method |-> "", url |-> "", headers |-> EmptyDict, json |-> NoneDict,
     params |-> NoneDict]
NoPrev == [set |-> FALSE, resp |-> NoResp, outcome |-> NoOutcome]

InitClient ==
    /\ api_key \in ApiKeys
    /\ base_url = BaseUrl
    /\ headers = InitHeaders(api_key)
    /\ requests_compat \in BOOLEAN
    /\ pc = "idle"
    /\ call = NoCall
    /\ wire = NoWire
    /\ nsent = 0
    /\ resp = NoResp
    /\ outcome = NoOutcome
    /\ prev = NoPrev

----------------------------------------------------------------------------
(* Arguments the resource methods are called with, by declared type.       *)

DefaultLimit == 10
DefaultPage == 1

Ids == 1..MaxId
Limits == {DefaultLimit}
Pages == DefaultPage..MaxPage
StrArgs == {JStr("v")}
OptStrArgs == {JNull, JStr(""), JStr("v")}
BoolArgs == {JBool(FALSE), JBool(TRUE)}
OptBoolArgs == {JNull} \cup BoolArgs
OrderArgs == {JStr("date")}
ItemTypes == {"links"}
\* **kwargs of shorten_link and update_link
KwargsArgs ==
    UNION {[S -> {JNull, JStr("mylink")}] : S \in SUBSET {"custom", "password"}}

\* return self._make_request(method, endpoint, data, params): control enters
\* the pipeline with these arguments
Invoke(method, endpoint, d, q) ==
    /\ pc' = "request"
    /\ call' = [method |-> method, endpoint |-> endpoint, data |-> d, params |-> q]
    /\ nsent' = 0
    /\ UNCHANGED <<wire, resp, outcome, prev, clientVars, modelVars>>

\* {'limit': limit, 'page': page}
LimitPage(limit, page) == ("limit" :> JInt(limit)) @@ ("page" :> JInt(page))

----------------------------------------------------------------------------
(* The resource methods.                                                   *)

get_account ==
    /\ pc = "idle"
    /\ Invoke("GET", "account", NoneDict, NoneDict)

update_account ==
    \E email \in OptStrArgs, password \in OptStrArgs :
        /\ pc = "idle"
        /\ Invoke("PUT", "account/update",
                  Some(SetIf(SetIf(EmptyDict, Truthy(email), "email", email),
                             Truthy(password), "password", password)),
                  NoneDict)

list_domains ==
    \E limit \in Limits, page \in Pages :
        /\ pc = "idle"
        /\ Invoke("GET", "domains", NoneDict, Some(LimitPage(limit, page)))

create_domain ==
    \E domain \in StrArgs, redirect_root \in OptStrArgs, redirect_404 \in OptStrArgs :
        /\ pc = "idle"
        /\ Invoke("POST", "domain/add",
                  Some(("domain" :> domain) @@ ("redirectroot" :> redirect_root)
                       @@ ("redirect404" :> redirect_404)),
                  NoneDict)

update_domain ==
    \E domain_id \in Ids, redirect_root \in OptStrArgs, redirect_404 \in OptStrArgs :
        /\ pc = "idle"
        /\ Invoke("PUT", "domain/" \o ToString(domain_id) \o "/update",
                  Some(SetIf(SetIf(EmptyDict, Truthy(redirect_root), "redirectroot",
                                   redirect_root),
                             Truthy(redirect_404), "redirect404", redirect_404)),
                  NoneDict)

delete_domain ==
    \E domain_id \in Ids :
        /\ pc = "idle"
        /\ Invoke("DELETE", "domain/" \o ToString(domain_id) \o "/delete",
                  NoneDict, NoneDict)

list_overlays ==
    \E limit \in Limits, page \in Pages :
        /\ pc = "idle"
        /\ Invoke("GET", "overlay", NoneDict, Some(LimitPage(limit, page)))

list_campaigns ==
    \E limit \in Limits, page \in Pages :
        /\ pc = "idle"
        /\ Invoke("GET", "campaigns", NoneDict, Some(LimitPage(limit, page)))

create_campaign ==
    \E name \in StrArgs, slug \in OptStrArgs, public \in BoolArgs :
        /\ pc = "idle"
        /\ Invoke("POST", "campaign/add",
                  Some(("name" :> name) @@ ("slug" :> slug) @@ ("public" :> public)),
                  NoneDict)

assign_link_to_campaign ==
    \E campaign_id \in Ids, link_id \in Ids :
        /\ pc = "idle"
        /\ Invoke("POST",
                  "campaign/" \o ToString(campaign_id) \o "/assign/" \o ToString(link_id),
                  NoneDict, NoneDict)

update_campaign ==
    \E campaign_id \in Ids, name \in StrArgs, slug \in OptStrArgs,
       public \in OptBoolArgs :
        /\ pc = "idle"
        /\ Invoke("PUT", "campaign/" \o ToString(campaign_id) \o "/update",
                  Some(SetIf(SetIf("name" :> name, Truthy(slug), "slug", slug),
                             public # JNull, "public", public)),
                  NoneDict)

delete_campaign ==
    \E campaign_id \in Ids :
        /\ pc = "idle"
        /\ Invoke("DELETE", "campaign/" \o ToString(campaign_id) \o "/delete",
                  NoneDict, NoneDict)

list_channels ==
    \E limit \in Limits, page \in Pages :
        /\ pc = "idle"
        /\ Invoke("GET", "channels", NoneDict, Some(LimitPage(limit, page)))

list_channel_items ==
    \E channel_id \in Ids, limit \in Limits, page \in Pages :
        /\ pc = "idle"
        /\ Invoke("GET", "channel/" \o ToString(channel_id), NoneDict,
                  Some(LimitPage(limit, page)))

create_channel ==
    \E name \in StrArgs, description \in OptStrArgs, color \in OptStrArgs,
       starred \in BoolArgs :
        /\ pc = "idle"
        /\ Invoke("POST", "channel/add",
                  Some(("name" :> name) @@ ("description" :> description)
                       @@ ("color" :> color) @@ ("starred" :> starred)),
                  NoneDict)

assign_item_to_channel ==
    \E channel_id \in Ids, item_type \in ItemTypes, item_id \in Ids :
        /\ pc = "idle"
        /\ Invoke("POST",
                  "channel/" \o ToString(channel_id) \o "/assign/" \o item_type \o "/"
                      \o ToString(item_id),
                  NoneDict, NoneDict)

update_channel ==
    \E channel_id \in Ids, name \in OptStrArgs, description \in OptStrArgs,
       color \in OptStrArgs, starred \in OptBoolArgs :
        /\ pc = "idle"
        /\ Invoke("PUT", "channel/" \o ToString(channel_id) \o "/update",
                  Some(SetIf(SetIf(SetIf(SetIf(EmptyDict, Truthy(name), "name", name),
                                         Truthy(description), "description", description),
                                   Truthy(color), "color", color),
                             starred # JNull, "starred", starred)),
                  NoneDict)

delete_channel ==
    \E channel_id \in Ids :
        /\ pc = "idle"
        /\ Invoke("DELETE", "channel/" \o ToString(channel_id) \o "/delete",
                  NoneDict, NoneDict)

list_splash ==
    \E limit \in Limits, page \in Pages :
        /\ pc = "idle"
        /\ Invoke("GET", "splash", NoneDict, Some(LimitPage(limit, page)))

list_links ==
    \E limit \in Limits, page \in Pages, order \in OrderArgs, short \in OptStrArgs :
        /\ pc = "idle"
        /\ Invoke("GET", "urls", NoneDict,
                  Some(SetIf(LimitPage(limit, page) @@ ("order" :> order),
                             Truthy(short), "short", short)))

get_link ==
    \E link_id \in Ids :
        /\ pc = "idle"
        /\ Invoke("GET", "url/" \o ToString(link_id), NoneDict, NoneDict)

shorten_link ==
    \E url \in StrArgs, kwargs \in KwargsArgs :
        /\ pc = "idle"
        /\ Invoke("POST", "url/add", Some(("url" :> url) @@ kwargs), NoneDict)

update_link ==
    \E link_id \in Ids, kwargs \in KwargsArgs :
        /\ pc = "idle"
        /\ Invoke("PUT", "url/" \o ToString(link_id) \o "/update", Some(kwargs), NoneDict)

delete_link ==
    \E link_id \in Ids :
        /\ pc = "idle"
        /\ Invoke("DELETE", "url/" \o ToString(link_id) \o "/delete", NoneDict, NoneDict)

list_pixels ==
    \E limit \in Limits, page \in Pages :
        /\ pc = "idle"
        /\ Invoke("GET", "pixels", NoneDict, Some(LimitPage(limit, page)))

create_pixel ==
    \E type \in StrArgs, name \in StrArgs, tag \in StrArgs :
        /\ pc = "idle"
        /\ Invoke("POST", "pixel/add",
                  Some(("type" :> type) @@ ("name" :> name) @@ ("tag" :> tag)),
                  NoneDict)

update_pixel ==
    \E pixel_id \in Ids, name \in OptStrArgs, tag \in OptStrArgs :
        /\ pc = "idle"
        /\ Invoke("PUT", "pixel/" \o ToString(pixel_id) \o "/update",
                  Some(SetIf(SetIf(EmptyDict, Truthy(name), "name", name),
                             Truthy(tag), "tag", tag)),
                  NoneDict)

delete_pixel ==
    \E pixel_id \in Ids :
        /\ pc = "idle"
        /\ Invoke("DELETE", "pixel/" \o ToString(pixel_id) \o "/delete",
                  NoneDict, NoneDict)

list_qr_codes ==
    \E limit \in Limits, page \in Pages :
        /\ pc = "idle"
        /\ Invoke("GET", "qr", NoneDict, Some(LimitPage(limit, page)))

get_qr_code ==
    \E qr_id \in Ids :
        /\ pc = "idle"
        /\ Invoke("GET", "qr/" \o ToString(qr_id), NoneDict, NoneDict)

\* qr_data of create_qr_code and update_qr_code, after the "if" lines
QrOptions(qr_data, background, foreground, logo) ==
    SetIf(SetIf(SetIf(qr_data, Truthy(background), "background", background),
                Truthy(foreground), "foreground", foreground),
          Truthy(logo), "logo", logo)

create_qr_code ==
    \E type \in StrArgs, qr \in StrArgs, background \in OptStrArgs,
       foreground \in OptStrArgs, logo \in OptStrArgs :
        /\ pc = "idle"
        /\ Invoke("POST", "qr/add",
                  Some(QrOptions(("type" :> type) @@ ("data" :> qr),
                                 background, foreground, logo)),
                  NoneDict)

update_qr_code ==
    \E qr_id \in Ids, qr \in StrArgs, background \in OptStrArgs,
       foreground \in OptStrArgs, logo \in OptStrArgs :
        /\ pc = "idle"
        /\ Invoke("PUT", "qr/" \o ToString(qr_id) \o "/update",
                  Some(QrOptions("data" :> qr, background, foreground, logo)),
                  NoneDict)

delete_qr_code ==
    \E qr_id \in Ids :
        /\ pc = "idle"
        /\ Invoke("DELETE", "qr/" \o ToString(qr_id) \o "/delete", NoneDict, NoneDict)

----------------------------------------------------------------------------
(* The request pipeline, ShotcutAPI._make_request.                         *)

\* the arguments of requests.request
RequestOf(c) ==
    [method |-> c.method, url |-> base_url \o "/" \o c.endpoint, headers |-> headers,
     json |-> OrNone(c.data), params |-> OrNone(c.params)]

\* the request is handed to the transport; the caller blocks
SendRequest ==
    /\ pc = "request"
    /\ wire' = RequestOf(call)
    /\ call' = NoCall
    /\ nsent' = nsent + 1
    /\ pc' = "sent"
    /\ UNCHANGED <<resp, outcome, prev, clientVars, modelVars>>

\* the request reaches the service; the caller waits for the response
ServiceReceives ==
    /\ pc = "sent"
    /\ wire' = NoWire
    /\ pc' = "awaiting"
    /\ UNCHANGED <<call, nsent, resp, outcome, prev, clientVars, modelVars>>

\* except requests.exceptions.RequestException as e
RequestFailed(at, description) ==
    Raise("ShotcutAPIError", at, Msg("Request failed: ", JStr(description), NoTime))

AfterRequestException_Retry == "request"

\* where control goes from the except clause: the raise ends the call
AfterRequestException == "done"

\* requests.request raised: network error, timeout, refused connection
TransportFailure ==
    /\ pc \in {"sent", "awaiting"}
    /\ \E r \in TransportErrors :
        /\ resp' = r
        /\ outcome' = RequestFailed("transport", r.error)
    /\ wire' = NoWire
    /\ pc' = AfterRequestException
    /\ UNCHANGED <<call, nsent, prev, clientVars, modelVars>>

\* response.json() raised
DecodeFailure(compat) ==
    IF compat THEN RequestFailed("decode", "Expecting value")
    ELSE Raise("ValueError", "decode", Msg("", JStr("Expecting value"), NoTime))

\* response.headers.get('X-RateLimit-Remaining') == '0'
RateLimited(h) == RemainingHeader \in DOMAIN h /\ h[RemainingHeader] = <<"0">>

\* int(response.headers.get('X-RateLimit-Reset', 0))
ResetSeconds(h) ==
    IF ResetHeader \in DOMAIN h THEN ParseInt(h[ResetHeader]) ELSE [ok |-> TRUE, n |-> 0]

\* the rate-limit check: what it raises, or NoOutcome when it passes
RateLimitCheck(h) ==
    IF ~RateLimited(h) THEN NoOutcome
    ELSE IF ~ResetSeconds(h).ok
         THEN Raise("ValueError", "ratelimit",
                    Msg("invalid literal for int() with base 10", JNull, NoTime))
         ELSE Raise("ShotcutAPIError", "ratelimit",
                    Msg("Rate limit exceeded. Reset at ", JNull,
                        FromTimestamp(ResetSeconds(h).n)))

\* the body-level check and the return
BodyErrorCheck(body) ==
    IF body.kind # "object"
    THEN Raise("AttributeError", "body", Msg("object has no attribute 'get'", JNull, NoTime))
    ELSE IF Truthy(Get(body.d, "error")) /\ NotEqualZero(body.d["error"])
         THEN Raise("ShotcutAPIError", "body",
                    Msg("", IF "message" \in DOMAIN body.d THEN body.d["message"]
                            ELSE JStr("Unknown API error"), NoTime))
         ELSE Return(body)

\* what _make_request does with a response
HandleResponse(r, compat) ==
    IF ~r.decodes THEN DecodeFailure(compat)
    ELSE IF RateLimitCheck(r.headers).kind # "none" THEN RateLimitCheck(r.headers)
    ELSE BodyErrorCheck(r.body)

\* a response arrived
ReceiveResponse ==
    /\ pc = "awaiting"
    /\ \E r \in Responses :
        /\ resp' = r
        /\ outcome' = HandleResponse(r, requests_compat)
    /\ pc' = "done"
    /\ UNCHANGED <<call, wire, nsent, prev, clientVars, modelVars>>

\* the caller has the returned body or the exception; the client is free again
ReturnToCaller ==
    /\ pc = "done"
    /\ pc' = "idle"
    /\ prev' = [set |-> TRUE, resp |-> resp, outcome |-> outcome]
    /\ resp' = NoResp
    /\ outcome' = NoOutcome
    /\ UNCHANGED <<call, wire, nsent, clientVars, modelVars>>

----------------------------------------------------------------------------
(* Values of a raw mapping handed to record construction (shotcut/models.py). *)

PNone == [t |-> "none", i |-> 0, s |-> <<>>, dt |-> NoTime]
PInt(n) == [t |-> "int", i |-> n, s |-> <<>>, dt |-> NoTime]
PBool(b) == [t |-> "bool", i |-> IF b THEN 1 ELSE 0, s |-> <<>>, dt |-> NoTime]
PStr(cs) == [t |-> "str", i |-> 0, s |-> cs, dt |-> NoTime]
PDatetime(d) == [t |-> "datetime", i |-> 0, s |-> <<>>, dt |-> d]

\* Python truth value ("if not date_str")
PTruthy(v) ==
    CASE v.t = "none" -> FALSE
      [] v.t = "int" -> v.i # 0
      [] v.t = "bool" -> v.i # 0
      [] v.t = "str" -> v.s # <<>>
      [] v.t = "datetime" -> TRUE

----------------------------------------------------------------------------
(* datetime.strptime(date_str, "%Y-%m-%d %H:%M:%S")                        *)

\* how many of the first maxn characters of cs from position p on are digits
RECURSIVE DigitRun(_, _, _)
DigitRun(cs, p, maxn) ==
    IF maxn = 0 \/ p > Len(cs) \/ ~IsDigit(cs[p]) THEN 0
    ELSE 1 + DigitRun(cs, p + 1, maxn - 1)

\* how many characters of cs from position p on are spaces
RECURSIVE SpaceRun(_, _)
SpaceRun(cs, p) ==
    IF p > Len(cs) \/ cs[p] # " " THEN 0 ELSE 1 + SpaceRun(cs, p + 1)

\* a numeric directive at p: minn..maxn digits, value in lo..hi
Directive(cs, p, minn, maxn, lo, hi) ==
    LET k == DigitRun(cs, p, maxn)
        n == DigitsValue(SubSeq(cs, p, p + k - 1))
    IN  [ok |-> k >= minn /\ n >= lo /\ n <= hi, n |-> n, next |-> p + k]

\* a literal character of the format at p
Literal(cs, p, c) == p <= Len(cs) /\ cs[p] = c

\* %d also takes a space followed by one digit 1-9
DayDirective(cs, p) ==
    IF Literal(cs, p, " ") /\ DigitRun(cs, p + 1, 1) = 1 /\ cs[p + 1] # "0"
    THEN [ok |-> TRUE, n |-> DigitVal(cs[p + 1]), next |-> p + 2]
    ELSE Directive(cs, p, 1, 2, 1, 31)

\* [ok, dt]: not ok is ValueError
Strptime(cs) ==
    LET Y == Directive(cs, 1, 4, 4, 0, 9999)
        m == Directive(cs, Y.next + 1, 1, 2, 1, 12)
        d == DayDirective(cs, m.next + 1)
        gap == SpaceRun(cs, d.next)
        H == Directive(cs, d.next + gap, 1, 2, 0, 23)
        M == Directive(cs, H.next + 1, 1, 2, 0, 59)
        S == Directive(cs, M.next + 1, 1, 2, 0, 61)
        matches ==
            /\ Y.ok /\ Literal(cs, Y.next, "-")
            /\ m.ok /\ Literal(cs, m.next, "-")
            /\ d.ok /\ gap >= 1
            /\ H.ok /\ Literal(cs, H.next, ":")
            /\ M.ok /\ Literal(cs, M.next, ":")
            /\ S.ok /\ S.next = Len(cs) + 1
    IN  IF matches /\ Y.n >= 1 /\ d.n <= DaysInMonth(Y.n, m.n) /\ S.n <= 59
        THEN [ok |-> TRUE, dt |-> <<Y.n, m.n, d.n, H.n, M.n, S.n>>]
        ELSE [ok |-> FALSE, dt |-> NoTime]

\* models.convert_datetime: [raised, val]; raised is strptime's TypeError, which
\* the function does not catch
convert_datetime(date_str) ==
    IF ~PTruthy(date_str) THEN [raised |-> FALSE, val |-> PNone]
    ELSE IF date_str.t # "str" THEN [raised |-> TRUE, val |-> PNone]
    ELSE IF Strptime(date_str.s).ok
         THEN [raised |-> FALSE, val |-> PDatetime(Strptime(date_str.s).dt)]
         ELSE [raised |-> FALSE, val |-> PNone]

----------------------------------------------------------------------------
(* The record kinds: declared fields, and the defaults of the optional ones. *)

BaseFields == {"id", "created_at", "updated_at"}

RecordKinds ==
    {"Link", "Campaign", "Channel", "Domain", "Pixel", "QRCode", "Splash",
     "AccountStats"}

\* fields declared without a default
Required(cls) ==
    CASE cls = "Link" -> BaseFields \cup {"url", "shorturl"}
      [] cls = "Campaign" -> BaseFields \cup {"name", "slug"}
      [] cls = "Channel" -> BaseFields \cup {"name"}
      [] cls = "Domain" -> BaseFields \cup {"domain", "status"}
      [] cls = "Pixel" -> BaseFields \cup {"type", "name", "tag"}
      [] cls = "QRCode" -> BaseFields \cup {"type", "data", "link"}
      [] cls = "Splash" -> BaseFields \cup {"name", "content"}
      [] cls = "AccountStats" ->
            {"total_links", "total_clicks", "total_campaigns", "total_channels",
             "total_domains", "total_pixels", "total_qr_codes"}

\* fields declared with a default, and the default
Defaults(cls) ==
    CASE cls = "Link" ->
            ("title" :> PNone) @@ ("description" :> PNone) @@ ("location" :> PNone)
            @@ ("custom" :> PNone) @@ ("password" :> PNone) @@ ("expiry" :> PNone)
            @@ ("clicks" :> PInt(0)) @@ ("status" :> PBool(TRUE))
      [] cls = "Campaign" ->
            ("public" :> PBool(FALSE)) @@ ("total_links" :> PInt(0))
            @@ ("total_clicks" :> PInt(0))
      [] cls = "Channel" ->
            ("description" :> PNone) @@ ("color" :> PNone)
            @@ ("starred" :> PBool(FALSE)) @@ ("total_items" :> PInt(0))
      [] cls = "Domain" ->
            ("redirect_root" :> PNone) @@ ("redirect_404" :> PNone)
            @@ ("ssl_status" :> PBool(FALSE))
      [] cls = "Pixel" -> "status" :> PBool(TRUE)
      [] cls = "QRCode" ->
            ("background" :> PNone) @@ ("foreground" :> PNone) @@ ("logo" :> PNone)
      [] cls = "Splash" -> "status" :> PBool(TRUE)
      [] cls = "AccountStats" -> EmptyDict

Fields(cls) == Required(cls) \cup DOMAIN Defaults(cls)

----------------------------------------------------------------------------
(* models.create_model_from_response                                       *)

NoResult ==
    [kind |-> "none", cls |-> "", fields |-> EmptyDict, exc |-> "", text |-> ""]
\* the call returned None
ReturnedNone ==
    [kind |-> "absent", cls |-> "", fields |-> EmptyDict, exc |-> "", text |-> ""]
ReturnedRecord(cls, fields) ==
    [kind |-> "record", cls |-> cls, fields |-> fields, exc |-> "", text |-> ""]
\* text and cls make up the message
Raised(exc, text, cls) ==
    [kind |-> "raise", cls |-> cls, fields |-> EmptyDict, exc |-> exc, text |-> text]

DateKeys == <<"created_at", "updated_at", "expiry">>

\* the three "if key in data: data[key] = convert_datetime(data[key])" lines, in
\* order: the mapping as they leave it, and whether one of them raised
RECURSIVE ConvertDates(_, _)
ConvertDates(d, keys) ==
    IF keys = <<>> THEN [d |-> d, raised |-> FALSE]
    ELSE IF Head(keys) \notin DOMAIN d THEN ConvertDates(d, Tail(keys))
    ELSE IF convert_datetime(d[Head(keys)]).raised THEN [d |-> d, raised |-> TRUE]
    ELSE ConvertDates([d EXCEPT ![Head(keys)] = convert_datetime(d[Head(keys)]).val],
                      Tail(keys))

\* model_class(**data): the dataclass constructor takes exactly its fields
Construct(cls, d) ==
    IF DOMAIN d \subseteq Fields(cls) /\ Required(cls) \subseteq DOMAIN d
    THEN ReturnedRecord(cls, d @@ Defaults(cls))
    ELSE Raised("ValueError", "Invalid data for ", cls)

\* what the call gives once the date entries are converted (conv), or None for an
\* empty or absent mapping
ResultOf(cls, x, conv) ==
    IF x.isNone \/ DOMAIN x.d = {} THEN ReturnedNone
    ELSE IF conv.raised THEN Raised("TypeError", "strptime() argument 1 must be str", "")
    ELSE Construct(cls, conv.d)

\* the caller's mapping after the call
MappingAfter(x, conv) == IF x.isNone \/ DOMAIN x.d = {} THEN x ELSE Some(conv.d)

\* [data, result]: the caller's mapping after the call, and what the call gave
create_model_from_response_Copy(cls, x) ==
    [data |-> x, result |-> ResultOf(cls, x, ConvertDates(x.d, DateKeys))]

create_model_from_response(cls, x) ==
    [data |-> MappingAfter(x, ConvertDates(x.d, DateKeys)),
     result |-> ResultOf(cls, x, ConvertDates(x.d, DateKeys))]

\* the caller's variables after a call that gave r
Built(r) ==
    /\ data' = r.data
    /\ result' = r.result
    /\ first' = IF ncall = 0 THEN r.result ELSE first

\* the caller builds a record from its mapping object
BuildRecord ==
    /\ ncall < MaxBuilds
    /\ Built(create_model_from_response(model_class, data))
    /\ ncall' = ncall + 1
    /\ UNCHANGED <<model_class, data0, clientVars, callVars>>

----------------------------------------------------------------------------
(* The mappings record construction is tried on.                           *)

DateValid == PStr(<<"2", "0", "2", "4", "-", "0", "1", "-", "0", "1", " ", "0", "0", ":", "0", "0", ":", "0", "0">>)
DateLenient == PStr(<<"2", "0", "2", "4", "-", "1", "-", "5", " ", "1", ":", "2", ":", "3">>)
DateOnly == PStr(<<"2", "0", "2", "4", "-", "0", "1", "-", "1", "5">>)
DateFeb30 == PStr(<<"2", "0", "2", "4", "-", "0", "2", "-", "3", "0", " ", "1", "0", ":", "0", "0", ":", "0", "0">>)
\* a Unix timestamp where a string was expected
DateEpochInt == PInt(1704067200)

DateVals == {PNone, PStr(<<>>), DateValid, DateLenient, DateOnly, DateFeb30, DateEpochInt}

IsDateKey(k) == \E j \in 1..Len(DateKeys) : DateKeys[j] = k

OtherVal(k) == IF k = "id" THEN PInt(5) ELSE PStr(<<"x">>)

\* key sets for cls: its required fields; those and one optional field; those and
\* expiry; those and an undeclared key; those less one
KeySets(cls) ==
    {Required(cls), Required(cls) \cup {"expiry"}, Required(cls) \cup {"bogus"}}
    \cup {Required(cls) \cup {k} : k \in DOMAIN Defaults(cls)}
    \cup {Required(cls) \ {CHOOSE k \in Required(cls) : ~IsDateKey(k)}}

MappingsOver(S) ==
    {[k \in S |-> IF IsDateKey(k) THEN dv[k] ELSE OtherVal(k)] :
        dv \in [{k \in S : IsDateKey(k)} -> DateVals]}

RawMappings(cls) ==
    {NoneDict, Some(EmptyDict)}
    \cup {Some(d) : d \in UNION {MappingsOver(S) : S \in KeySets(cls)}}

ClientAtRest ==
    /\ api_key = "key-A"
    /\ base_url = BaseUrl
    /\ headers = InitHeaders("key-A")
    /\ requests_compat = TRUE
    /\ pc = "idle"
    /\ call = NoCall
    /\ wire = NoWire
    /\ nsent = 0
    /\ resp = NoResp
    /\ outcome = NoOutcome
    /\ prev = NoPrev

InitModels ==
    /\ ClientAtRest
    /\ model_class \in RecordKinds
    /\ data0 \in RawMappings(model_class)
    /\ data = data0
    /\ ncall = 0
    /\ result = NoResult
    /\ first = NoResult

NextModels == BuildRecord

SpecModels == InitModels /\ [][NextModels]_vars

----------------------------------------------------------------------------
(* Record construction is at rest while the client is exercised.           *)

ModelsAtRest ==
    /\ model_class = ""
    /\ data = NoneDict
    /\ data0 = NoneDict
    /\ ncall = 0
    /\ result = NoResult
    /\ first = NoResult

Init == InitClient /\ ModelsAtRest

Next ==
    \/ get_account \/ update_account
    \/ list_domains \/ create_domain \/ update_domain \/ delete_domain
    \/ list_overlays
    \/ list_campaigns \/ create_campaign \/ assign_link_to_campaign
    \/ update_campaign \/ delete_campaign
    \/ list_channels \/ list_channel_items \/ create_channel
    \/ assign_item_to_channel \/ update_channel \/ delete_channel
    \/ list_splash
    \/ list_links \/ get_link \/ shorten_link \/ update_link \/ delete_link
    \/ list_pixels \/ create_pixel \/ update_pixel \/ delete_pixel
    \/ list_qr_codes \/ get_qr_code \/ create_qr_code \/ update_qr_code
    \/ delete_qr_code
    \/ SendRequest \/ ServiceReceives \/ TransportFailure \/ ReceiveResponse \/ ReturnToCaller

Spec == Init /\ [][Next]_vars

----------------------------------------------------------------------------
(* Claims about the request pipeline, checked under Spec.                  *)

\* a call ended on a response (not a transport failure) that decoded
Decoded == pc = "done" /\ resp.transport = "ok" /\ resp.decodes

\* the value of a field of a decoded body, JNull when the body has none
BodyField(b, k) == IF b.kind = "object" THEN Get(b.d, k) ELSE JNull

\* the body's error field is present and nonzero
ErrorFieldSet(b) == BodyField(b, "error") # JNull /\ BodyField(b, "error") # JInt(0)

\* C1: a decoded response whose X-RateLimit-Remaining is "0" (reset header absent
\* or an integer) makes the call fail with a RateLimitError whose message holds
\* the reset time, the absent header read as epoch 0.
C1_RateLimitKind ==
    (Decoded /\ RateLimited(resp.headers) /\ ResetSeconds(resp.headers).ok)
        => /\ outcome.kind = "raise"
           /\ outcome.exc = "RateLimitError"
           /\ outcome.msg.time =
                FromTimestamp(IF ResetHeader \in DOMAIN resp.headers
                              THEN ParseInt(resp.headers[ResetHeader]).n ELSE 0)

\* C2: no request in flight holds an entry whose value is None, in its JSON body
\* or in its query parameters: both equal their clean_params image.
C2_NoNoneTransmitted ==
    pc = "sent"
        => /\ wire.json.d = clean_params(wire.json.d)
           /\ wire.params.d = clean_params(wire.params.d)

\* C3: whatever the exchange produced, the call returns the decoded body or fails
\* with one of the ApiError kinds.
C3_OnlyApiErrors ==
    pc = "done"
        => \/ outcome.kind = "return" /\ outcome.body = resp.body
           \/ outcome.kind = "raise" /\ outcome.exc \in ApiErrorKinds

\* C4: on a decoded response that is not rate-limited, an error field present and
\* nonzero makes the call fail with a generic API error carrying the body's message
\* (or "Unknown API error"); otherwise the call returns the decoded body unchanged.
C4_BodyErrorOrReturn ==
    (Decoded /\ ~RateLimited(resp.headers))
        => IF ErrorFieldSet(resp.body)
           THEN /\ outcome.kind = "raise"
                /\ outcome.exc = "ShotcutAPIError"
                /\ outcome.msg.val =
                     (IF "message" \in DOMAIN resp.body.d THEN resp.body.d["message"]
                      ELSE JStr("Unknown API error"))
           ELSE outcome = Return(resp.body)

\* C5: checks run in the order decode, rate limit, body error: an undecodable
\* response fails with the decode failure whatever its headers, and a response with
\* X-RateLimit-Remaining "0" and a nonzero error field fails with the rate-limit
\* error, never with the body's message.
C5_CheckOrder ==
    (pc = "done" /\ resp.transport = "ok")
        => /\ ~resp.decodes => (outcome.kind = "raise" /\ outcome.at = "decode")
           /\ (resp.decodes /\ RateLimited(resp.headers) /\ ErrorFieldSet(resp.body))
                => /\ outcome.kind = "raise"
                   /\ outcome.msg.text = "Rate limit exceeded. Reset at "
                   /\ outcome.msg # Msg("", IF "message" \in DOMAIN resp.body.d
                                             THEN resp.body.d["message"]
                                             ELSE JStr("Unknown API error"), NoTime)

\* What does hold of C4: when the decoded body is a JSON object.
C4_HoldsForObjectBodies ==
    (Decoded /\ ~RateLimited(resp.headers) /\ resp.body.kind = "object")
        => IF ErrorFieldSet(resp.body)
           THEN /\ outcome.kind = "raise"
                /\ outcome.exc = "ShotcutAPIError"
                /\ outcome.msg.val =
                     (IF "message" \in DOMAIN resp.body.d THEN resp.body.d["message"]
                      ELSE JStr("Unknown API error"))
           ELSE outcome = Return(resp.body)

\* What does hold of C5: a failure of a rate-limited response is raised by the
\* rate-limit check, and is the rate-limit error when the reset header is absent
\* or an integer.
C5_HoldsAtRateLimitCheck ==
    (pc = "done" /\ resp.transport = "ok")
        => /\ ~resp.decodes => (outcome.kind = "raise" /\ outcome.at = "decode")
           /\ (resp.decodes /\ RateLimited(resp.headers))
                => /\ outcome.kind = "raise" /\ outcome.at = "ratelimit"
                   /\ ResetSeconds(resp.headers).ok
                        => outcome.msg.text = "Rate limit exceeded. Reset at "

\* C6: a call of a resource method transmits exactly one request, however it ends.
C6_OneRequestPerCall ==
    /\ nsent <= 1
    /\ pc = "request" => nsent = 0
    /\ pc \in {"sent", "awaiting", "done"} => nsent = 1

\* a call that ended in a transport failure, having sent its one request
C6_Witness ==
    pc = "done" /\ outcome.kind = "raise" /\ outcome.at = "transport" /\ nsent = 1

\* the client's fields hold what construction gave them
C7_FieldsAsConstructed ==
    /\ base_url = "https://shotcut.in/api"
    /\ headers = ("Authorization" :> ("Bearer " \o api_key))
                 @@ ("Content-Type" :> "application/json")
    /\ pc = "sent" => wire.headers = ("Authorization" :> ("Bearer " \o api_key))
                                     @@ ("Content-Type" :> "application/json")

\* a call's outcome is the one the same response gave the call before it
C7_OutcomeOfResponseOnly ==
    (pc = "done" /\ prev.set /\ prev.resp = resp) => outcome = prev.outcome

\* C7: over any sequence of calls the client's api_key, base_url and headers stay
\* as constructed, every request carries exactly Authorization: Bearer <api_key>
\* and Content-Type: application/json, and a call's outcome does not depend on
\* the calls before it.
C7_ClientReadOnly ==
    /\ [](C7_FieldsAsConstructed /\ C7_OutcomeOfResponseOnly)
    /\ [][api_key' = api_key /\ base_url' = base_url /\ headers' = headers]_vars

\* a call that succeeds right after a call that failed, on the same client
C7_Witness ==
    /\ pc = "done" /\ outcome.kind = "return"
    /\ prev.set /\ prev.outcome.kind = "raise"

----------------------------------------------------------------------------
(* Claims about record construction, checked under SpecModels.             *)

\* the mapping is not empty and its keys are not the record kind's: an undeclared
\* key, or a required field missing
KeysMismatch(cls, x) ==
    /\ ~x.isNone /\ DOMAIN x.d # {}
    /\ ~(DOMAIN x.d \subseteq Fields(cls) /\ Required(cls) \subseteq DOMAIN x.d)

\* every date entry of the mapping is a string or None
DatesAreStrings(x) ==
    \A k \in DOMAIN x.d : IsDateKey(k) => x.d[k].t \in {"str", "none"}

\* what best-effort parsing makes of a value: the date-time it parses to, else None
CoercedDate(v) ==
    IF v.t = "str" /\ Strptime(v.s).ok THEN PDatetime(Strptime(v.s).dt) ELSE PNone

\* C8: a non-empty mapping whose keys do not match the record kind's fields makes
\* the call fail with a ValidationError whose message names the record kind.
C8_ValidationKind ==
    (ncall >= 1 /\ KeysMismatch(model_class, data0) /\ DatesAreStrings(data0))
        => /\ first.kind = "raise"
           /\ first.exc = "ValidationError"
           /\ first.cls = model_class

\* C9: each of created_at, updated_at, expiry present in the mapping reaches the
\* record as the date-time it parses to, or None when it does not parse; date
\* coercion never makes the call fail, whatever the value; an empty or absent
\* mapping yields None.
C9_DateCoercionBestEffort ==
    ncall >= 1
        => /\ (data0.isNone \/ DOMAIN data0.d = {}) => first = ReturnedNone
           /\ first.exc # "TypeError"
           /\ first.kind = "record"
                => \A k \in DOMAIN data0.d :
                       IsDateKey(k) => first.fields[k] = CoercedDate(data0.d[k])

=============================================================================
